---- MODULE Spec2Model ----
(***************************************************************************)
(* Model of the pad-extract library (src/src/lib.rs): the container        *)
(* framer (block_range), MetaFile::new, the two filters, read, extract     *)
(* and extract_many.                                                       *)
(*                                                                         *)
(* A container buffer is described by its logical content (the records of  *)
(* the four sections, serialised with honest count prefixes and the        *)
(* sections' zero padding) and by `cut`, the number of bytes missing at    *)
(* its end.  Texts are sequences of one-byte characters.  A regex pattern  *)
(* is either Invalid (a syntax error) or the set of texts it matches.      *)
(***************************************************************************)
EXTENDS Integers, Sequences, FiniteSets, TLC

VARIABLES
    buf,      \* the container buffer handed to MetaFile::new
    pc,       \* "start" | "ready" | "failed" (new returned Err) | "panicked"
    mf,       \* the MetaFile (its four tables), NoMetaFile before/without one
    pre,      \* meta_table as it was when the last call started
    last,     \* the last call: [op, pattern] ; op = "none" before any call
    result,   \* how the last call ended: "none" | "Ok" | "Err" | "Panic"
    rd,       \* the last read: its record, level, outcome and returned buffer
    ex        \* the extract_many call: its level, phase and per-record outcomes

vars == <<buf, pc, mf, pre, last, result, rd, ex>>

(* Bounds of the enumerated inputs *)

MaxMeta == 2      \* meta records in a container
MaxPaths == 2     \* path records in a container

(* Generic helpers *)

Range(s) == {s[i] : i \in 1..Len(s)}

RECURSIVE SumSeq(_)
SumSeq(s) == IF s = <<>> THEN 0 ELSE Head(s) + SumSeq(Tail(s))

\* s[a..b) with 0-based half-open bounds, as a Rust slice s[a..b]
Slice(s, a, b) == SubSeq(s, a + 1, b)


(* ---------------- The container buffer (input of MetaFile::new) -------- *)

\* The pattern text that regex::Regex::new rejects.
Invalid == [valid |-> FALSE, matches |-> {}]

\* A syntactically valid pattern, given by the set of texts it matches.
Regex(texts) == [valid |-> TRUE, matches |-> texts]

NoMetaFile == [none |-> TRUE]

Panic(v) == [status |-> "Panic", value |-> v]
Err(v) == [status |-> "Err", value |-> v]
Ok(v) == [status |-> "Ok", value |-> v]

\* Smallest multiple of the 8-byte cipher block that holds n bytes
\* (the Paths and Files sections are zero-padded to a block boundary).
PadToBlock(n) == ((n + 7) \div 8) * 8

\* Serialised size of one path entry: u32 start, u32 length, text, NUL.
PathEntryBytes(e) == 4 + 4 + Len(e.path) + 1

PathsContentBytes(b) == SumSeq([i \in 1..Len(b.paths) |-> PathEntryBytes(b.paths[i])])

FilesContentBytes(b) == SumSeq([i \in 1..Len(b.files) |-> Len(b.files[i]) + 1])

\* The u32 count prefix stored in front of each section.
CountPrefix(b, block) ==
    CASE block = "Packages" -> Len(b.packages)
      [] block = "Metas" -> Len(b.metas)
      [] block = "Paths" -> PadToBlock(PathsContentBytes(b))
      [] block = "Files" -> PadToBlock(FilesContentBytes(b))

\* Length of the complete serialisation, and of the buffer actually given.
FullLen(b) ==
    4 + (4 + 12 * Len(b.packages)) + (4 + 28 * Len(b.metas))
      + (4 + PadToBlock(PathsContentBytes(b))) + (4 + PadToBlock(FilesContentBytes(b)))

BufLen(b) == FullLen(b) - b.cut

(* ---------------- block_range ------------------------------------------ *)

\* read_u32 at cursor position pos fails (UnexpectedEof) unless 4 bytes are
\* left; the computed end is never compared with the buffer length, and
\* Cursor::set_position accepts any position.
block_range(block, b, pos) ==
    IF pos + 4 > BufLen(b)
    THEN Err("UnexpectedEof")
    ELSE LET count == CountPrefix(b, block)
             start == pos + 4
             end == CASE block = "Packages" -> start + count * 12
                      [] block = "Metas" -> start + count * 28
                      [] block = "Paths" -> start + count
                      [] block = "Files" -> start + count
         IN  Ok([start |-> start, end |-> end])

\* Indexing the buffer with a range, &buf[range]: panics when the range
\* does not lie inside the buffer.
SliceInBounds(range, len) == range.start <= range.end /\ range.end <= len

(* ---------------- Record decoders --------------------------------------- *)

\* PackageRecord::many_from_le_bytes and MetaRecord::many_from_le_bytes:
\* chunks_exact(12 | 28) over a section of count * (12 | 28) bytes yields
\* one record per stored record, in input order.
PackageRecord_many_from_le_bytes(b) == b.packages

MetaRecord_many_from_le_bytes(b) == b.metas

\* meta_table.par_sort_by_key(|x| x.file_id): a stable sort, written as an
\* insertion sort that puts a record after the records with an equal key.
RECURSIVE InsertByFileId(_, _)
InsertByFileId(sorted, r) ==
    IF sorted = <<>> THEN <<r>>
    ELSE IF Head(sorted).file_id <= r.file_id
         THEN <<Head(sorted)>> \o InsertByFileId(Tail(sorted), r)
         ELSE <<r>> \o sorted

RECURSIVE par_sort_by_key(_)
par_sort_by_key(s) ==
    IF s = <<>> THEN <<>>
    ELSE InsertByFileId(par_sort_by_key(SubSeq(s, 1, Len(s) - 1)), s[Len(s)])

PathRecord_from_raw_parts(path, start, end) ==
    [path |-> path, file_range |-> [start |-> start, end |-> end]]

\* The parse loop of PathRecord::many_from_encrypted_le_bytes: while the
\* cursor is before trimmed_len, read start, length and a NUL-terminated
\* text.  entries = the records still ahead of the cursor.  end is the u32
\* sum start + length; the values enumerated here stay far below 2^32.
RECURSIVE PathParseLoop(_, _, _)
PathParseLoop(entries, pos, trimmed_len) ==
    IF ~(pos < trimmed_len) THEN Ok(<<>>)
    ELSE IF entries = <<>> THEN Panic("read_u32 unwrap")
    ELSE LET e == Head(entries)
             rest == PathParseLoop(Tail(entries), pos + PathEntryBytes(e), trimmed_len)
         IN  IF rest.status # "Ok" THEN rest
             ELSE Ok(<<PathRecord_from_raw_parts(e.path, e.start, e.start + e.length)>>
                       \o rest.value)

\* PathRecord::many_from_encrypted_le_bytes on the decrypted Paths section:
\* the content followed by zero padding.  zeros = position of the last
\* non-zero byte counted from the end (the last text's NUL and the padding);
\* an empty or all-zero section makes position() None and unwrap panics.
\* trimmed_len = len - zeros + 1.
PathRecord_many_from_encrypted_le_bytes(b) ==
    LET len == PadToBlock(PathsContentBytes(b)) IN
    IF b.paths = <<>> THEN Panic("position unwrap")
    ELSE LET zeros == (len - PathsContentBytes(b)) + 1
             trimmed_len == len - zeros + 1
         IN  IF trimmed_len > len THEN Panic("slice end")
             ELSE PathParseLoop(b.paths, 0, trimmed_len)

\* FileRecord::many_from_encrypted_le_bytes: the decrypted section without
\* its trailing zeros (padding and the last name's NUL), split on NUL.
FileRecord_many_from_encrypted_le_bytes(b) ==
    IF b.files = <<>> THEN Panic("position unwrap")
    ELSE Ok(b.files)

(* ---------------- MetaFile::new ------------------------------------------ *)

\* Returns Ok(MetaFile), Err (a `?` on block_range) or Panic (an unwrap or
\* an out-of-range slice), in the order the code reaches them.
MetaFile_new(b) ==
    LET len == BufLen(b) IN
    IF len < 4 THEN Panic("version unwrap")
    ELSE LET r1 == block_range("Packages", b, 4) IN
    IF r1.status # "Ok" THEN Err(r1.value)
    ELSE IF ~SliceInBounds(r1.value, len) THEN Panic("slice")
    ELSE LET r2 == block_range("Metas", b, r1.value.end) IN
    IF r2.status # "Ok" THEN Err(r2.value)
    ELSE IF ~SliceInBounds(r2.value, len) THEN Panic("slice")
    ELSE LET r3 == block_range("Paths", b, r2.value.end) IN
    IF r3.status # "Ok" THEN Err(r3.value)
    ELSE IF ~SliceInBounds(r3.value, len) THEN Panic("slice")
    ELSE LET paths == PathRecord_many_from_encrypted_le_bytes(b) IN
    IF paths.status # "Ok" THEN Panic(paths.value)
    ELSE LET r4 == block_range("Files", b, r3.value.end) IN
    IF r4.status # "Ok" THEN Err(r4.value)
    ELSE IF ~SliceInBounds(r4.value, len) THEN Panic("slice")
    ELSE LET files == FileRecord_many_from_encrypted_le_bytes(b) IN
    IF files.status # "Ok" THEN Panic(files.value)
    ELSE Ok([package_table |-> PackageRecord_many_from_le_bytes(b),
             meta_table |-> par_sort_by_key(MetaRecord_many_from_le_bytes(b)),
             path_table |-> paths.value,
             file_table |-> files.value])

(* ---------------- The filters -------------------------------------------- *)

is_match(re, text) == text \in re.matches

Reverse(s) == [i \in 1..Len(s) |-> s[Len(s) + 1 - i]]

\* Mutant of filter_by_file: it also drops from file_table the names that no
\* kept record refers to (a filter that renumbers the file table).
filter_by_file_compacting(self, pattern) ==
    IF ~pattern.valid THEN Panic(self)
    ELSE IF \E i \in 1..Len(self.meta_table) :
                self.meta_table[i].file_id >= Len(self.file_table)
    THEN Panic(self)
    ELSE LET kept == SelectSeq(self.meta_table,
                               LAMBDA x : is_match(pattern, self.file_table[x.file_id + 1]))
         IN  Ok([self EXCEPT !.meta_table = kept,
                             !.file_table = SelectSeq(self.file_table,
                                 LAMBDA name : \E i \in 1..Len(kept) :
                                     self.file_table[kept[i].file_id + 1] = name)])

\* Mutant of filter_by_file: the kept records are collected last first (a
\* collect that does not keep the order of the input).
filter_by_file_unordered(self, pattern) ==
    IF ~pattern.valid THEN Panic(self)
    ELSE IF \E i \in 1..Len(self.meta_table) :
                self.meta_table[i].file_id >= Len(self.file_table)
    THEN Panic(self)
    ELSE Ok([self EXCEPT !.meta_table =
                Reverse(SelectSeq(self.meta_table,
                          LAMBDA x : is_match(pattern, self.file_table[x.file_id + 1])))])

\* filter_by_file: Regex::new(pattern).unwrap() panics on a syntax error;
\* file_table[x.file_id] panics on an index past the table; the parallel
\* filter/collect keeps the order of the records it keeps.
filter_by_file(self, pattern) ==
    IF ~pattern.valid THEN Panic(self)
    ELSE IF \E i \in 1..Len(self.meta_table) :
                self.meta_table[i].file_id >= Len(self.file_table)
    THEN Panic(self)
    ELSE Ok([self EXCEPT !.meta_table =
                SelectSeq(self.meta_table,
                          LAMBDA x : is_match(pattern, self.file_table[x.file_id + 1]))])

\* The flat_map of filter_by_path over the path records still to visit.
RECURSIVE PathSlices(_, _, _)
PathSlices(paths, meta_table, re) ==
    IF paths = <<>> THEN Ok(<<>>)
    ELSE LET pr == Head(paths) IN
         IF ~is_match(re, pr.path) THEN PathSlices(Tail(paths), meta_table, re)
         ELSE IF ~SliceInBounds(pr.file_range, Len(meta_table)) THEN Panic("slice")
         ELSE LET rest == PathSlices(Tail(paths), meta_table, re) IN
              IF rest.status # "Ok" THEN rest
              ELSE Ok(Slice(meta_table, pr.file_range.start, pr.file_range.end)
                        \o rest.value)

\* Mutant of filter_by_path: the slices of the matching path records are
\* concatenated in the reverse of path_table order (a collect in completion
\* order rather than in table order).
filter_by_path_unordered(self, re_pat) ==
    IF ~re_pat.valid THEN Panic(self)
    ELSE LET r == PathSlices(Reverse(self.path_table), self.meta_table, re_pat) IN
         IF r.status # "Ok" THEN Panic(self)
         ELSE Ok([self EXCEPT !.meta_table = r.value])

\* filter_by_path: for each matching path record, in path_table order, the
\* slice meta_table[file_range] of the table as it is when the call starts.
filter_by_path(self, re_pat) ==
    IF ~re_pat.valid THEN Panic(self)
    ELSE LET r == PathSlices(self.path_table, self.meta_table, re_pat) IN
         IF r.status # "Ok" THEN Panic(self)
         ELSE Ok([self EXCEPT !.meta_table = r.value])

(* ---------------- The enumerated containers ------------------------------ *)

\* Texts of the enumerated path and file records, by position in the table.
PathText(i) == IF i % 2 = 1 THEN <<"a">> ELSE <<"b">>

FileText(i) == IF i % 2 = 1 THEN <<"x">> ELSE <<"y">>

PathTexts == {PathText(i) : i \in 1..MaxPaths}

FileTexts == {FileText(i) : i \in 1..MaxMeta}

\* Patterns: a syntax error, or a regex given by the texts it matches.
PathPatterns == {Invalid} \cup {Regex(t) : t \in SUBSET PathTexts}

FilePatterns == {Invalid} \cup {Regex(t) : t \in SUBSET FileTexts}

MetaRecordOf(i, pid, fid, szc, szo) ==
    [hash |-> i, path_id |-> pid, file_id |-> fid, package_id |-> 1,
     package_offset |-> 0, sz_compressed |-> szc, sz_original |-> szo]

\* Meta sections: up to MaxMeta records in any order of file_id, with ids
\* that may or may not index the tables; hash tells the records apart.
MetaSections ==
    UNION {{[i \in 1..n |-> MetaRecordOf(i, f[i][1], f[i][2], 0, 0)] :
                f \in [1..n -> (0..(MaxPaths - 1)) \X (0..(MaxMeta - 1))]} :
           n \in 0..MaxMeta}

\* Path sections: up to MaxPaths entries with any start and length.
PathSections ==
    UNION {{[i \in 1..n |-> [start |-> f[i][1], length |-> f[i][2], path |-> PathText(i)]] :
                f \in [1..n -> (0..MaxMeta) \X (0..MaxMeta)]} :
           n \in 0..MaxPaths}

FileSections == {[i \in 1..n |-> FileText(i)] : n \in 0..MaxMeta}

PackageSections == {<<>>, <<[id |-> 1, hash |-> 0, size |-> 0]>>}

\* Complete buffers with every content.
WholeContainers ==
    {[packages |-> <<[id |-> 1, hash |-> 0, size |-> 0]>>, metas |-> m, paths |-> p,
      files |-> f, cut |-> 0] :
        m \in MetaSections, p \in PathSections, f \in FileSections}

\* Buffers cut short at every byte position, over the smallest contents.
SmallContainers ==
    {[packages |-> k, metas |-> m, paths |-> p, files |-> f, cut |-> 0] :
        k \in PackageSections,
        m \in {s \in MetaSections : Len(s) <= 1 /\ \A i \in 1..Len(s) : s[i].file_id = 0 /\ s[i].path_id = 0},
        p \in {s \in PathSections : Len(s) <= 1 /\ \A i \in 1..Len(s) : s[i].start = 0 /\ s[i].length = 0},
        f \in {s \in FileSections : Len(s) <= 1}}

TruncatedContainers ==
    UNION {{[b EXCEPT !.cut = c] : c \in 1..FullLen(b)} : b \in SmallContainers}

(* ---------------- State machine ------------------------------------------ *)

NoCall == [op |-> "none", pattern |-> Regex({})]

NoRead == [done |-> FALSE]

NoExtract == [phase |-> "idle"]

Init ==
    /\ buf \in WholeContainers \cup TruncatedContainers
    /\ pc = "start"
    /\ mf = NoMetaFile
    /\ pre = <<>>
    /\ last = NoCall
    /\ result = "none"
    /\ rd = NoRead
    /\ ex = NoExtract

\* let meta = MetaFile::new(&mut buf, key)
New ==
    /\ pc = "start"
    /\ LET r == MetaFile_new(buf) IN
         /\ result' = r.status
         /\ pc' = CASE r.status = "Ok" -> "ready"
                    [] r.status = "Err" -> "failed"
                    [] r.status = "Panic" -> "panicked"
         /\ mf' = IF r.status = "Ok" THEN r.value ELSE NoMetaFile
         /\ pre' = IF r.status = "Ok" THEN r.value.meta_table ELSE <<>>
    /\ last' = [op |-> "new", pattern |-> Regex({})]
    /\ UNCHANGED <<buf, rd, ex>>

\* meta.filter_by_path(pattern)
FilterByPath ==
    /\ pc = "ready"
    /\ \E pattern \in PathPatterns :
         LET r == filter_by_path(mf, pattern) IN
           /\ last' = [op |-> "filter_by_path", pattern |-> pattern]
           /\ result' = r.status
           /\ mf' = r.value
           /\ pc' = IF r.status = "Panic" THEN "panicked" ELSE "ready"
    /\ pre' = mf.meta_table
    /\ UNCHANGED <<buf, rd, ex>>

\* meta.filter_by_file(pattern)
FilterByFile ==
    /\ pc = "ready"
    /\ \E pattern \in FilePatterns :
         LET r == filter_by_file(mf, pattern) IN
           /\ last' = [op |-> "filter_by_file", pattern |-> pattern]
           /\ result' = r.status
           /\ mf' = r.value
           /\ pc' = IF r.status = "Panic" THEN "panicked" ELSE "ready"
    /\ pre' = mf.meta_table
    /\ UNCHANGED <<buf, rd, ex>>

Next == New \/ FilterByPath \/ FilterByFile

Spec == Init /\ [][Next]_vars

(* ---------------- Vocabulary of the claims ------------------------------- *)

Filters == {"filter_by_path", "filter_by_file"}

HasMetaFile == mf # NoMetaFile

\* The MetaFile as MetaFile::new returned it (only used when it did).
Constructed == MetaFile_new(buf).value

FileNameOf(m, r) == m.file_table[r.file_id + 1]

PathOf(m, r) == m.path_table[r.path_id + 1].path

IdsInRange(m, r) == r.path_id < Len(m.path_table) /\ r.file_id < Len(m.file_table)

\* A container as a packer writes it: dense distinct file ids, one name per
\* record, and path buckets that are slices of the sorted meta table, each
\* record lying in the bucket of its own path and in no other.
WellFormed(b) ==
    LET sorted == par_sort_by_key(b.metas)
        n == Len(b.metas)
        InBucket(j, p) == b.paths[p].start <= j - 1 /\ j - 1 < b.paths[p].start + b.paths[p].length
    IN  /\ b.cut = 0
        /\ Len(b.files) = n
        /\ Len(b.paths) >= 1
        /\ \A j \in 1..n : sorted[j].file_id = j - 1
        /\ \A p \in 1..Len(b.paths) : b.paths[p].start + b.paths[p].length <= n
        /\ \A j \in 1..n :
              /\ sorted[j].path_id < Len(b.paths)
              /\ \A p \in 1..Len(b.paths) : InBucket(j, p) <=> p = sorted[j].path_id + 1

(* ---------------- C1 ------------------------------------------------------ *)

\* C1: whatever filter_by_path / filter_by_file calls were made (with valid
\* or invalid patterns, completed or not), package_table, path_table and
\* file_table are the tables MetaFile::new built; only meta_table may differ.
C1_FiltersKeepTables ==
    HasMetaFile =>
        /\ mf.package_table = Constructed.package_table
        /\ mf.path_table = Constructed.path_table
        /\ mf.file_table = Constructed.file_table

\* A filter has run and has changed meta_table, next to non-empty tables.
C1_Witness ==
    /\ HasMetaFile
    /\ last.op \in Filters
    /\ result = "Ok"
    /\ mf.meta_table # pre
    /\ Len(mf.path_table) = MaxPaths
    /\ Len(mf.file_table) = MaxMeta
    /\ Len(mf.package_table) = 1

(* ---------------- C2 ------------------------------------------------------ *)

\* C2 (as claimed): once MetaFile::new has succeeded, and after any filter
\* calls, every record of meta_table has path_id < path_table.len() and
\* file_id < file_table.len().
C2_IdsAlwaysInRange ==
    HasMetaFile => \A i \in 1..Len(mf.meta_table) : IdsInRange(mf, mf.meta_table[i])

(* ---------------- C3 ------------------------------------------------------ *)

SortedByFileId(t) == \A i, j \in 1..Len(t) : i < j => t[i].file_id <= t[j].file_id

ValidRange(range, len) == range.start <= range.end /\ range.end <= len

\* C3 (as claimed): right after MetaFile::new succeeds, meta_table is sorted
\* ascending by file_id and every path record's file_range satisfies
\* start <= end <= meta_table.len().
C3_SortedAndRangesValid ==
    (last.op = "new" /\ result = "Ok") =>
        /\ SortedByFileId(mf.meta_table)
        /\ \A p \in 1..Len(mf.path_table) :
              ValidRange(mf.path_table[p].file_range, Len(mf.meta_table))

(* ---------------- C4 ------------------------------------------------------ *)

RangeLen(range) == range.end - range.start

\* The path records (1-based positions) the pattern matches.
Matching(m, re) == {p \in 1..Len(m.path_table) : is_match(re, m.path_table[p].path)}

\* Rows contributed by the matching path records before position p.
RowsBefore(m, re, p) ==
    SumSeq([q \in 1..(p - 1) |->
              IF q \in Matching(m, re) THEN RangeLen(m.path_table[q].file_range) ELSE 0])

\* The last call was filter_by_path with a valid pattern on the meta table as
\* constructed, and the slices of the matching path records exist.
C4_Case ==
    /\ HasMetaFile
    /\ last.op = "filter_by_path"
    /\ last.pattern.valid
    /\ pre = Constructed.meta_table
    /\ \A p \in Matching(mf, last.pattern) :
          ValidRange(mf.path_table[p].file_range, Len(pre))

\* C4: filter_by_path on a freshly constructed MetaFile completes and leaves
\* in meta_table, for each matching path record in path_table order, the rows
\* pre[file_range] one after the other, and nothing else: row k of the slice
\* of matching record p sits at RowsBefore(p) + k.
C4_PathFilterConcatenatesSlices ==
    C4_Case =>
        /\ result = "Ok"
        /\ Len(mf.meta_table) = RowsBefore(mf, last.pattern, Len(mf.path_table) + 1)
        /\ \A p \in Matching(mf, last.pattern) :
              \A k \in 1..RangeLen(mf.path_table[p].file_range) :
                  mf.meta_table[RowsBefore(mf, last.pattern, p) + k]
                      = pre[mf.path_table[p].file_range.start + k]

\* Two matching buckets whose path order is the reverse of their order in
\* the meta table, next to an unmatched path or an empty bucket elsewhere.
C4_Witness ==
    /\ C4_Case
    /\ Cardinality(Matching(mf, last.pattern)) = 2
    /\ Len(pre) = 2
    /\ Len(mf.meta_table) = 2
    /\ mf.meta_table[1] = pre[2]
    /\ mf.meta_table[2] = pre[1]

(* ---------------- C5 ------------------------------------------------------ *)

\* Positions of `pre` whose file name the pattern matches.
Kept(m, re, t) == {i \in 1..Len(t) : is_match(re, FileNameOf(m, t[i]))}

\* The last call was filter_by_file with a valid pattern, on a table whose
\* records all have a file name.
C5_Case ==
    /\ HasMetaFile
    /\ last.op = "filter_by_file"
    /\ last.pattern.valid
    /\ \A i \in 1..Len(pre) : pre[i].file_id < Len(mf.file_table)

\* C5: filter_by_file completes and meta_table holds exactly the records of
\* the table before the call whose file name matches, in their former
\* relative order: the record at a kept position i is now at the rank of i
\* among the kept positions.
C5_FileFilterKeepsMatchesInOrder ==
    C5_Case =>
        LET K == Kept(mf, last.pattern, pre) IN
        /\ result = "Ok"
        /\ Len(mf.meta_table) = Cardinality(K)
        /\ \A i \in K : mf.meta_table[Cardinality({j \in K : j <= i})] = pre[i]

\* A file filter on a table that an earlier path filter has reordered: it
\* drops one record and keeps one, or keeps two in their order.
C5_Witness ==
    /\ C5_Case
    /\ pre # Constructed.meta_table
    /\ Len(pre) = 2
    /\ Len(mf.meta_table) = 1
    /\ mf.meta_table[1] = pre[2]

(* ---------------- C6 ------------------------------------------------------ *)

\* C6 (as claimed), for a well-formed container: when filter_by_file(p) on
\* the constructed table is followed by filter_by_path(q), the second call
\* completes and meta_table holds exactly the constructed records whose
\* file name matches p and whose path matches q.
C6_FileThenPath ==
    [][ ( /\ pc = "ready"
          /\ WellFormed(buf)
          /\ last.op = "filter_by_file"
          /\ result = "Ok"
          /\ pre = Constructed.meta_table
          /\ last'.op = "filter_by_path"
          /\ last'.pattern.valid )
        => ( /\ result' = "Ok"
             /\ \A r \in Range(mf'.meta_table) :
                   /\ is_match(last.pattern, FileNameOf(mf, r))
                   /\ is_match(last'.pattern, PathOf(mf, r))
             /\ \A r \in Range(Constructed.meta_table) :
                   ( /\ is_match(last.pattern, FileNameOf(mf, r))
                     /\ is_match(last'.pattern, PathOf(mf, r)) )
                   => r \in Range(mf'.meta_table) ) ]_vars

(* ---------------- C7 ------------------------------------------------------ *)

NoDuplicates(t) == \A i, j \in 1..Len(t) : t[i] = t[j] => i = j

\* C7 (as claimed): after any filter calls meta_table holds only records of
\* the constructed table, none of them twice, and the last call did not
\* make it longer.
C7_OnlyShrinks ==
    (HasMetaFile /\ last.op \in Filters) =>
        /\ Range(mf.meta_table) \subseteq Range(Constructed.meta_table)
        /\ NoDuplicates(mf.meta_table)
        /\ Len(mf.meta_table) <= Len(pre)

(* ---------------- C8 ------------------------------------------------------ *)

\* C8 (as claimed): a filter call with a syntactically invalid pattern
\* returns Err and leaves meta_table as it was.
C8_InvalidPatternReturnsErr ==
    (last.op \in Filters /\ ~last.pattern.valid) =>
        /\ result = "Err"
        /\ mf.meta_table = pre

(* ---------------- C9 ------------------------------------------------------ *)

\* Position at which each section's count prefix starts, and its computed
\* end, in reading order.
SectionStart(b, k) ==
    CASE k = 1 -> 4
      [] k = 2 -> 4 + 4 + 12 * Len(b.packages)
      [] k = 3 -> 4 + 4 + 12 * Len(b.packages) + 4 + 28 * Len(b.metas)
      [] k = 4 -> 4 + 4 + 12 * Len(b.packages) + 4 + 28 * Len(b.metas)
                    + 4 + PadToBlock(PathsContentBytes(b))

SectionEnd(b, k) ==
    CASE k = 1 -> SectionStart(b, 2)
      [] k = 2 -> SectionStart(b, 3)
      [] k = 3 -> SectionStart(b, 4)
      [] k = 4 -> FullLen(b)

\* Some section's count prefix is in the buffer (as are the sections before
\* it) and the end computed from it lies past the end of the buffer.
CountOverrunsBuffer(b) ==
    \E k \in 1..4 : SectionStart(b, k) + 4 <= BufLen(b) /\ BufLen(b) < SectionEnd(b, k)

\* C9 (as claimed): when a section's count prefix puts its computed end past
\* the end of the buffer, MetaFile::new returns Err and yields no MetaFile.
C9_OverrunReturnsErr ==
    (last.op = "new" /\ CountOverrunsBuffer(buf)) =>
        /\ result = "Err"
        /\ mf = NoMetaFile

(* ---------------- MetaFile::read ------------------------------------------ *)

MaxSize == 3      \* largest sz_compressed, sz_original and package file size

ReadLevels == {"Raw", "Decrypt", "Decompress"}

\* #[derive(PartialOrd, Ord)] on ReadLevel: the declaration order.
ReadLevelRank(level) ==
    CASE level = "Raw" -> 0
      [] level = "Decrypt" -> 1
      [] level = "Decompress" -> 2

LevelAtLeast(level, min) == ReadLevelRank(level) >= ReadLevelRank(min)

DbssExt == <<".", "d", "b", "s", "s">>

ends_with(s, suffix) ==
    /\ Len(s) >= Len(suffix)
    /\ SubSeq(s, Len(s) - Len(suffix) + 1, Len(s)) = suffix

\* What one read finds outside the MetaFile: the package file (present or
\* not, its size), whether the first byte of the buffer is 0x6E when the
\* Decompress step looks at it (first6E), and what the stored stream is to
\* the codec (well-formed or not, and the decompressed size its header
\* declares).
Envs ==
    [exists : BOOLEAN, size : 0..MaxSize, first6E : BOOLEAN,
     stream_ok : BOOLEAN, declared : 0..MaxSize]

\* A byte of the buffer: where it comes from in the package file (-1 for a
\* byte the codec produced) and how many times it has been decrypted.
RawBytes(record) ==
    [i \in 1..record.sz_compressed |-> [pos |-> record.package_offset + i - 1, dec |-> 0]]

ChunkBytes == 128     \* par_chunks_exact_mut(128): 16 cipher blocks

BlockBytes == 8       \* chunks_exact_mut(8): one cipher block

\* The decrypt step: every full 128-byte chunk goes through
\* decrypt_blocks_par::<16>, and of the remainder every full 8-byte block
\* goes through decrypt; what is left of the remainder is not touched.
DecryptBuffer(bytes) ==
    LET n == Len(bytes)
        chunked == (n \div ChunkBytes) * ChunkBytes
        blocked == chunked + ((n - chunked) \div BlockBytes) * BlockBytes
    IN  [i \in 1..n |-> IF i <= blocked THEN [bytes[i] EXCEPT !.dec = @ + 1] ELSE bytes[i]]

\* quicklz::decompress(reader, max_size): the codec reads the stream's own
\* header; it fails on a malformed stream or when the size declared there
\* exceeds max_size, and otherwise returns the declared number of bytes.
quicklz_decompress(bytes, max_size, env) ==
    IF bytes = <<>> \/ ~env.stream_ok \/ env.declared > max_size
    THEN Err("quicklz")
    ELSE Ok([i \in 1..env.declared |-> [pos |-> -1, dec |-> 0]])

\* The Decompress step of read, on the buffer after the decrypt step.
DecompressStep(bytes, record, is_dbss, env) ==
    LET trigger == \/ record.sz_original > record.sz_compressed
                   \/ (~is_dbss /\ bytes # <<>> /\ env.first6E)
        d == IF trigger THEN quicklz_decompress(bytes, record.sz_original, env)
             ELSE Ok(bytes)
    IN  IF d.status # "Ok" THEN d
        ELSE IF record.sz_original < record.sz_compressed
             THEN IF record.sz_original > Len(d.value) THEN Panic("slice")
                  ELSE Ok(SubSeq(d.value, 1, record.sz_original))
             ELSE d

\* MetaFile::read.  File::open fails on a missing package file; a seek past
\* the end succeeds; read_exact fails when fewer than sz_compressed bytes
\* follow the offset (never for an empty buffer).
read(self, record, level, env) ==
    IF ~env.exists THEN Err("open")
    ELSE IF /\ record.sz_compressed > 0
            /\ record.package_offset + record.sz_compressed > env.size
         THEN Err("read_exact")
    ELSE IF record.file_id >= Len(self.file_table) THEN Panic("index")
    ELSE LET raw == RawBytes(record)
             is_dbss == ends_with(self.file_table[record.file_id + 1], DbssExt)
             dec == IF LevelAtLeast(level, "Decrypt") /\ ~is_dbss
                    THEN DecryptBuffer(raw) ELSE raw
         IN  IF LevelAtLeast(level, "Decompress")
             THEN DecompressStep(dec, record, is_dbss, env)
             ELSE Ok(dec)

(* ---------------- Reading: containers and state machine ------------------- *)

ReadFileNames == {<<"x">>, <<"x">> \o DbssExt}

\* One record in one bucket, with every combination of sizes, a plain or a
\* .dbss file name, and a file_id that has a name (0) or not (1).
ReadContainers ==
    {[packages |-> <<[id |-> 1, hash |-> 0, size |-> 0]>>,
      metas |-> <<MetaRecordOf(1, 0, fid, szc, szo)>>,
      paths |-> <<[start |-> 0, length |-> 1, path |-> PathText(1)]>>,
      files |-> <<name>>, cut |-> 0] :
        fid \in 0..1, szc \in 0..MaxSize, szo \in 0..MaxSize, name \in ReadFileNames}

InitRead ==
    /\ buf \in ReadContainers
    /\ pc = "start"
    /\ mf = NoMetaFile
    /\ pre = <<>>
    /\ last = NoCall
    /\ result = "none"
    /\ rd = NoRead
    /\ ex = NoExtract

\* meta.read(&meta.meta_table[i], &level)
Read ==
    /\ pc = "ready"
    /\ \E i \in 1..Len(mf.meta_table), level \in ReadLevels, env \in Envs :
         LET r == read(mf, mf.meta_table[i], level, env) IN
           /\ rd' = [done |-> TRUE, record |-> mf.meta_table[i], level |-> level,
                     status |-> r.status,
                     out |-> IF r.status = "Ok" THEN r.value ELSE <<>>]
           /\ result' = r.status
           /\ pc' = IF r.status = "Panic" THEN "panicked" ELSE "ready"
    /\ last' = [op |-> "read", pattern |-> Regex({})]
    /\ UNCHANGED <<buf, mf, pre, ex>>

NextRead == New \/ Read

SpecRead == InitRead /\ [][NextRead]_vars

(* ---------------- C10 ----------------------------------------------------- *)

\* C10 (as claimed): every read that succeeds returns sz_compressed bytes at
\* level Raw and sz_original bytes at level Decompress.
C10_ReadLengths ==
    (rd.done /\ rd.status = "Ok") =>
        /\ rd.level = "Raw" => Len(rd.out) = rd.record.sz_compressed
        /\ rd.level = "Decompress" => Len(rd.out) = rd.record.sz_original

(* ---------------- MetaFile::extract and extract_many ---------------------- *)

\* What one extract finds on disk: whether File::create and write_all
\* succeed, and the package file as read sees it.
ExtractEnvs == [create_ok : BOOLEAN, write_ok : BOOLEAN, pkg : Envs]

\* MetaFile::extract: the two table lookups panic on an index past the
\* table; File::create, read and write_all return their error with `?`; a
\* panic inside read is a panic of extract.
extract(self, record, level, env) ==
    IF record.path_id >= Len(self.path_table) THEN Panic("index")
    ELSE IF record.file_id >= Len(self.file_table) THEN Panic("index")
    ELSE IF ~env.create_ok THEN Err("create")
    ELSE LET r == read(self, record, level, env.pkg) IN
         IF r.status # "Ok" THEN r
         ELSE IF ~env.write_ok THEN Err("write")
         ELSE Ok(r.value)

\* The closure that extract_many runs for one record: extract, and on Err
\* the report, which looks the path and the file name up again.
extract_many_closure(self, record, level, env) ==
    LET r == extract(self, record, level, env) IN
    IF r.status # "Err" THEN r
    ELSE IF \/ record.path_id >= Len(self.path_table)
            \/ record.file_id >= Len(self.file_table)
         THEN Panic("index")
         ELSE r

\* Sizes (sz_compressed, sz_original) of the records to extract: equal,
\* stored shorter, stored longer.
ExtractSizes == (1..2) \X (1..2)

\* Containers to extract from: 1..MaxMeta records with their own file name,
\* any sizes, and a path_id that does or does not index the path table.
ExtractContainers ==
    UNION {{[packages |-> <<[id |-> 1, hash |-> 0, size |-> 0]>>,
             metas |-> [i \in 1..n |-> MetaRecordOf(i, f[i][1], i - 1, f[i][2][1], f[i][2][2])],
             paths |-> [p \in 1..k |-> [start |-> 0, length |-> 0, path |-> PathText(p)]],
             files |-> [i \in 1..n |-> FileText(i)],
             cut |-> 0] :
                f \in [1..n -> (0..(MaxPaths - 1)) \X ExtractSizes], k \in 1..MaxPaths} :
           n \in 1..MaxMeta}

InitExtract ==
    /\ buf \in ExtractContainers
    /\ pc = "start"
    /\ mf = NoMetaFile
    /\ pre = <<>>
    /\ last = NoCall
    /\ result = "none"
    /\ rd = NoRead
    /\ ex = NoExtract

\* extract_many, first statement: the distinct paths of the records are
\* collected (a lookup past path_table panics before any directory is made)
\* and create_dir_all(..).expect(..) is called on each, in the HashSet's
\* order; a directory that cannot be made panics, the ones after it are not
\* made.
ExtractManyDirs ==
    /\ pc = "ready"
    /\ ex.phase = "idle"
    /\ \E level \in ReadLevels :
         LET n == Len(mf.meta_table)
             lookup_ok == \A i \in 1..n : mf.meta_table[i].path_id < Len(mf.path_table)
             needed == IF lookup_ok
                       THEN {mf.path_table[mf.meta_table[i].path_id + 1].path : i \in 1..n}
                       ELSE {}
         IN  \E made \in SUBSET needed :
               LET panics == ~lookup_ok \/ made # needed IN
                 /\ ex' = [phase |-> IF panics THEN "panicked" ELSE "extracting",
                           level |-> level,
                           dirs |-> made,
                           outcome |-> [i \in 1..n |-> "none"],
                           reported |-> {}]
                 /\ pc' = IF panics THEN "panicked" ELSE "ready"
                 /\ result' = IF panics THEN "Panic" ELSE "none"
    /\ last' = [op |-> "extract_many", pattern |-> Regex({})]
    /\ UNCHANGED <<buf, mf, pre, rd>>

\* extract_many, par_iter().for_each: one worker runs the closure on a
\* record no worker has taken yet, in any order.  An Err is printed and the
\* worker goes on; a panic in the closure is not caught, it ends extract_many
\* with whatever records the workers had taken by then.
ExtractOne ==
    /\ pc = "ready"
    /\ ex.phase = "extracting"
    /\ \E i \in 1..Len(mf.meta_table), env \in ExtractEnvs :
         /\ ex.outcome[i] = "none"
         /\ LET r == extract_many_closure(mf, mf.meta_table[i], ex.level, env) IN
              /\ ex' = [ex EXCEPT
                          !.outcome[i] = IF r.status = "Ok" THEN "Ok" ELSE r.value,
                          !.reported = IF r.status = "Err" THEN @ \cup {i} ELSE @,
                          !.phase = IF r.status = "Panic" THEN "panicked" ELSE @]
              /\ pc' = IF r.status = "Panic" THEN "panicked" ELSE "ready"
              /\ result' = IF r.status = "Panic" THEN "Panic" ELSE result
    /\ UNCHANGED <<buf, mf, pre, last, rd>>

\* extract_many returns Ok(()) once for_each has run the closure on every
\* record.
ExtractManyReturn ==
    /\ pc = "ready"
    /\ ex.phase = "extracting"
    /\ \A i \in 1..Len(mf.meta_table) : ex.outcome[i] # "none"
    /\ ex' = [ex EXCEPT !.phase = "done"]
    /\ result' = "Ok"
    /\ UNCHANGED <<buf, pc, mf, pre, last, rd>>

NextExtract == New \/ ExtractManyDirs \/ ExtractOne \/ ExtractManyReturn

SpecExtract == InitExtract /\ [][NextExtract]_vars

(* ---------------- C11 ----------------------------------------------------- *)

\* The ways extracting one record fails that the claim lists: a missing or
\* short package file, a file that cannot be created or written, an error of
\* the codec, and decompressed data shorter than the size it is cut to.
RecordFailures == {"open", "read_exact", "create", "write", "quicklz", "slice"}

\* C11 (as claimed): when extract_many has ended and extracting a record
\* failed in one of these ways, extract_many completed, extract was attempted
\* for every record, and each failure was reported.
C11_FailuresAreIsolated ==
    ( /\ ex.phase \in {"done", "panicked"}
      /\ \E i \in 1..Len(mf.meta_table) : ex.outcome[i] \in RecordFailures )
    => /\ ex.phase = "done"
       /\ \A i \in 1..Len(mf.meta_table) :
             /\ ex.outcome[i] # "none"
             /\ ex.outcome[i] \in RecordFailures => i \in ex.reported

(* ---------------- Reading payloads of whole blocks and chunks ------------- *)

\* Payload sizes around the cipher block and the parallel chunk: empty, less
\* than a block, one block, a block and a part, one chunk, and a chunk, a
\* block and a part.
PayloadSizes ==
    {0, BlockBytes - 3, BlockBytes, BlockBytes + 4, ChunkBytes,
     ChunkBytes + BlockBytes + 5}

\* The package file and the stored stream as read finds them, for payloads
\* of these sizes.
PayloadEnvs ==
    [exists : BOOLEAN, size : {0, ChunkBytes + BlockBytes + 5}, first6E : BOOLEAN,
     stream_ok : BOOLEAN, declared : {0, BlockBytes}]

\* One record with every combination of these sizes and a plain or a .dbss
\* file name.
PayloadContainers ==
    {[packages |-> <<[id |-> 1, hash |-> 0, size |-> 0]>>,
      metas |-> <<MetaRecordOf(1, 0, 0, szc, szo)>>,
      paths |-> <<[start |-> 0, length |-> 1, path |-> PathText(1)]>>,
      files |-> <<name>>, cut |-> 0] :
        szc \in PayloadSizes, szo \in PayloadSizes, name \in ReadFileNames}

InitPayload ==
    /\ buf \in PayloadContainers
    /\ pc = "start"
    /\ mf = NoMetaFile
    /\ pre = <<>>
    /\ last = NoCall
    /\ result = "none"
    /\ rd = NoRead
    /\ ex = NoExtract

\* meta.read(&meta.meta_table[i], &level) on such a payload
ReadPayload ==
    /\ pc = "ready"
    /\ \E i \in 1..Len(mf.meta_table), level \in ReadLevels, env \in PayloadEnvs :
         LET r == read(mf, mf.meta_table[i], level, env) IN
           /\ rd' = [done |-> TRUE, record |-> mf.meta_table[i], level |-> level,
                     status |-> r.status,
                     out |-> IF r.status = "Ok" THEN r.value ELSE <<>>]
           /\ result' = r.status
           /\ pc' = IF r.status = "Panic" THEN "panicked" ELSE "ready"
    /\ last' = [op |-> "read", pattern |-> Regex({})]
    /\ UNCHANGED <<buf, mf, pre, ex>>

NextPayload == New \/ ReadPayload

SpecPayload == InitPayload /\ [][NextPayload]_vars

(* ---------------- C12 ----------------------------------------------------- *)

\* The record's file name has the reserved extension.
HasReservedExt(record) == ends_with(FileNameOf(mf, record), DbssExt)

\* C12 (as claimed): in the buffer a read returns, every byte that comes from
\* the package file has been decrypted exactly once when level >= Decrypt and
\* the name does not end with .dbss, and not at all when level is Raw or the
\* name ends with .dbss; below Decompress the buffer is the whole stored
\* range, in order.
C12_WholeBufferDecryptedOnce ==
    (rd.done /\ rd.status = "Ok") =>
        LET decrypts == LevelAtLeast(rd.level, "Decrypt") /\ ~HasReservedExt(rd.record) IN
        /\ \A i \in 1..Len(rd.out) :
              rd.out[i].pos >= 0 => rd.out[i].dec = (IF decrypts THEN 1 ELSE 0)
        /\ rd.level # "Decompress" =>
              /\ Len(rd.out) = rd.record.sz_compressed
              /\ \A i \in 1..Len(rd.out) :
                    rd.out[i].pos = rd.record.package_offset + i - 1
====
